---------------------------- MODULE Spec2Model ----------------------------
(***************************************************************************)
(* A model of git-rs: the content-addressed object store (blob, tree,      *)
(* commit), its canonical encodings, the directory-to-tree builder and the *)
(* hash-object / ls-tree / write-tree / commit-tree commands.              *)
(*                                                                         *)
(* Byte strings are sequences of bytes.  A byte is a record:               *)
(*   [c |-> s]      one byte, the character s ("NUL" is 0x00, "LF" is      *)
(*                  0x0A, "xFF" is the byte 0xFF, which is invalid UTF-8); *)
(*   [raw |-> b]    the 20 raw bytes of the SHA-1 digest of byte string b; *)
(*   [hex |-> b]    the 40 hexadecimal characters of that digest.          *)
(* SHA-1 is modelled as an ideal (injective) digest: the digest of b is    *)
(* named by b itself.                                                      *)
(***************************************************************************)
EXTENDS Integers, Sequences, FiniteSets, TLC

VARIABLES
    store,   \* .git/objects: object identifier (hex string) -> file content
    last,    \* the last command run: its arguments, outcome, output, trace
    nops     \* number of commands run so far

vars == <<store, last, nops>>

-----------------------------------------------------------------------------
(* Bounds of the model *)

MaxOps == 3          \* commands run in one behaviour
MaxEntries == 3      \* entries of a working directory, besides .git
MaxFaultAfter == 3   \* filesystem calls that succeed before an injected fault
MaxLines == 5        \* lines of a hand-written commit payload

-----------------------------------------------------------------------------
(* Bytes *)

Ch(s) == [c |-> s]

Str(t) == [i \in 1..Len(t) |-> Ch(t[i])] \o <<>>

NUL == Ch("NUL")
LF  == Ch("LF")
SP  == Ch(" ")
XFF == Ch("xFF")

IsChar(b) == "c" \in DOMAIN b
IsRaw(b)  == "raw" \in DOMAIN b
IsHex(b)  == "hex" \in DOMAIN b

RawWidth == 20
HexWidth == 40

\* the length in bytes: one per token, and the rest of each wide token
ByteLen(bs) ==
    Len(bs)
    + (RawWidth - 1) * Cardinality({i \in 1..Len(bs) : IsRaw(bs[i])})
    + (HexWidth - 1) * Cardinality({i \in 1..Len(bs) : IsHex(bs[i])})
    + 2 * Cardinality({i \in 1..Len(bs) : "w" \in DOMAIN bs[i]})

\* the byte offset at which token i of bs starts
Offset(bs, i) == ByteLen(SubSeq(bs, 1, i - 1))

RECURSIVE Concat(_)
Concat(ss) == IF ss = <<>> THEN <<>> ELSE Head(ss) \o Concat(Tail(ss))

Digits == <<"0", "1", "2", "3", "4", "5", "6", "7", "8", "9">>

HexDigits == Digits \o <<"a", "b", "c", "d", "e", "f">>

\* ASCII codes of the characters the model uses
Ascii ==
    "NUL" :> 0 @@ "LF" :> 10 @@ " " :> 32 @@ "." :> 46 @@
    "0" :> 48 @@ "1" :> 49 @@ "2" :> 50 @@ "3" :> 51 @@ "4" :> 52 @@
    "5" :> 53 @@ "6" :> 54 @@ "7" :> 55 @@ "8" :> 56 @@ "9" :> 57 @@
    "<" :> 60 @@ ">" :> 62 @@ "@" :> 64 @@ "H" :> 72 @@ "Y" :> 89 @@
    "a" :> 97 @@ "b" :> 98 @@ "c" :> 99 @@ "d" :> 100 @@ "e" :> 101 @@
    "f" :> 102 @@ "g" :> 103 @@ "h" :> 104 @@ "i" :> 105 @@ "j" :> 106 @@
    "k" :> 107 @@ "l" :> 108 @@ "m" :> 109 @@ "n" :> 110 @@ "o" :> 111 @@
    "p" :> 112 @@ "q" :> 113 @@ "r" :> 114 @@ "s" :> 115 @@ "t" :> 116 @@
    "u" :> 117 @@ "v" :> 118 @@ "w" :> 119 @@ "x" :> 120 @@ "y" :> 121 @@
    "z" :> 122 @@ "xFF" :> 255

\* the byte with a given value: a character of the alphabet, or a numbered byte
ByteOf(n) ==
    IF \E s \in DOMAIN Ascii : Ascii[s] = n
    THEN Ch(CHOOSE s \in DOMAIN Ascii : Ascii[s] = n)
    ELSE [c |-> "?", n |-> n]

Code(b) == IF "n" \in DOMAIN b THEN b.n ELSE Ascii[b.c]

\* format!("{}", n) of an unsigned integer
RECURSIVE Dec(_)
Dec(n) == IF n < 10 THEN <<Ch(Digits[n + 1])>>
          ELSE Dec(n \div 10) \o <<Ch(Digits[(n % 10) + 1])>>

\* String::from_utf8: every ASCII byte and every hex string is valid; the byte
\* 0xFF and the raw bytes of a digest are not
IsUtf8(bs) ==
    \A i \in 1..Len(bs) :
        /\ ~IsRaw(bs[i])
        /\ IsChar(bs[i]) => (Code(bs[i]) < 128 \/ "w" \in DOMAIN bs[i])

\* U+FFFD, the three-byte replacement character
REPL == [c |-> "U+FFFD", n |-> 65533, w |-> 3]

\* String::from_utf8_lossy
Lossy(bs) ==
    [i \in 1..Len(bs) |-> IF IsUtf8(<<bs[i]>>) THEN bs[i] ELSE REPL] \o <<>>

\* the first index of ch in bs, or 0
IndexOf(bs, ch) ==
    IF \E i \in 1..Len(bs) : bs[i] = ch
    THEN CHOOSE i \in 1..Len(bs) : bs[i] = ch /\ \A j \in 1..(i - 1) : bs[j] # ch
    ELSE 0

\* what an iterator yields up to the first ch, and what is left after that ch
UpTo(bs, ch) == IF IndexOf(bs, ch) = 0 THEN bs ELSE SubSeq(bs, 1, IndexOf(bs, ch) - 1)

After(bs, ch) ==
    IF IndexOf(bs, ch) = 0 THEN <<>> ELSE SubSeq(bs, IndexOf(bs, ch) + 1, Len(bs))

\* str::split(sep) for a one-byte separator
RECURSIVE Split(_, _)
Split(bs, sep) ==
    IF IndexOf(bs, sep) = 0 THEN <<bs>>
    ELSE <<UpTo(bs, sep)>> \o Split(After(bs, sep), sep)

\* str::starts_with
StartsWith(bs, p) == Len(bs) >= Len(p) /\ SubSeq(bs, 1, Len(p)) = p

\* str::replace(ch, "")
Remove(bs, ch) == SelectSeq(bs, LAMBDA b : b # ch)

\* byte-wise (String) ordering: a < b
RECURSIVE BytesLess(_, _)
BytesLess(a, b) ==
    IF b = <<>> THEN FALSE
    ELSE IF a = <<>> THEN TRUE
    ELSE IF Head(a) = Head(b) THEN BytesLess(Tail(a), Tail(b))
    ELSE Code(Head(a)) < Code(Head(b))

-----------------------------------------------------------------------------
(* Results: Ok(v), an error returned as a value, a panic, a stack overflow *)

Ok(v)    == [st |-> "ok", e |-> "", v |-> v]
Err(e)   == [st |-> "err", e |-> e]
Panic(e) == [st |-> "panic", e |-> e]

\* the process dies of a stack overflow: unbounded recursion
Overflow == [st |-> "overflow", e |-> "stack overflow"]

-----------------------------------------------------------------------------
(* utils.rs *)

\* Sha1::digest(content).to_vec(): the 20 raw bytes of the digest
Sha1(content) == <<[raw |-> content]>>

to_hex_byte(b) ==
    IF IsRaw(b) THEN <<[hex |-> b.raw]>>
    ELSE <<Ch(HexDigits[(Code(b) \div 16) + 1]), Ch(HexDigits[(Code(b) % 16) + 1])>>

RECURSIVE to_hex_string(_)
to_hex_string(content) ==
    IF content = <<>> THEN <<>>
    ELSE to_hex_byte(Head(content)) \o to_hex_string(Tail(content))

HexVal(b) == CHOOSE k \in 0..15 : HexDigits[k + 1] = b.c

IsHexDigit(b) == IsChar(b) /\ \E k \in 1..16 : HexDigits[k] = b.c

\* from_hex: the bytes, or a ParseIntError; &s[i..i + 2] panics on an odd length
RECURSIVE from_hex(_)
from_hex(s) ==
    LET Collect(byte, rest) == IF rest.st = "ok" THEN Ok(<<byte>> \o rest.v) ELSE rest
    IN  IF s = <<>> THEN Ok(<<>>)
        ELSE IF IsHex(Head(s)) THEN Collect([raw |-> Head(s).hex], from_hex(Tail(s)))
        ELSE IF Len(s) < 2 THEN Panic("byte index out of bounds")
        ELSE IF ~(IsHexDigit(s[1]) /\ IsHexDigit(s[2])) THEN Err("ParseIntError")
        ELSE Collect(ByteOf(16 * HexVal(s[1]) + HexVal(s[2])), from_hex(Tail(Tail(s))))

generate_object_id(content) == to_hex_string(Sha1(content))

\* zlib: the compressed stream wraps the bytes; anything else does not inflate
compress(bytes) == [zlib |-> bytes]

decompress(bytes) ==
    IF "zlib" \in DOMAIN bytes THEN Ok(bytes.zlib)
    ELSE Err("Could not decompress Object")

\* str::split_at(2) panics on a string shorter than two bytes; the object's
\* path .git/objects/<2>/<rest> is named by the identifier itself
create_object_directory(hash) ==
    IF ByteLen(hash) < 2 THEN Panic("split_at") ELSE Ok(hash)

\* fs::OpenOptions write/create/truncate: the file holds exactly content
write_to_file(files, file_name, content) ==
    [p \in DOMAIN files \cup {file_name} |->
        IF p = file_name THEN content ELSE files[p]]

read_object(files, hash) ==
    IF ByteLen(hash) < 2 THEN Panic("split_at")
    ELSE IF hash \in DOMAIN files THEN Ok(files[hash])
    ELSE Err("Could not read object")

-----------------------------------------------------------------------------
(* git_objects.rs: TreeFileModes *)

\* From<&str> without the unpadded directory mode that Display writes
ModeFromStrPaddedOnly(value) ==
    IF value = Str(<<"1", "0", "0", "6", "4", "4">>) THEN "Regular"
    ELSE IF value = Str(<<"1", "0", "0", "7", "5", "5">>) THEN "Executable"
    ELSE IF value = Str(<<"1", "2", "0", "0", "0", "0">>) THEN "SymbolicLink"
    ELSE IF value = Str(<<"0", "4", "0", "0", "0", "0">>) THEN "Directory"
    ELSE "Regular"

\* impl From<&str> for TreeFileModes
ModeFromStr(value) ==
    IF value = Str(<<"1", "0", "0", "6", "4", "4">>) THEN "Regular"
    ELSE IF value = Str(<<"1", "0", "0", "7", "5", "5">>) THEN "Executable"
    ELSE IF value = Str(<<"1", "2", "0", "0", "0", "0">>) THEN "SymbolicLink"
    ELSE IF value \in {Str(<<"0", "4", "0", "0", "0", "0">>),
                       Str(<<"4", "0", "0", "0", "0">>)} THEN "Directory"
    ELSE "Regular"

\* impl From<fs::FileType> for TreeFileModes
ModeFromFileType(kind) ==
    IF kind = "dir" THEN "Directory"
    ELSE IF kind = "symlink" THEN "SymbolicLink"
    ELSE "Regular"

\* impl Display for TreeFileModes
ModeDisplay(mode) ==
    CASE mode = "Regular"      -> Str(<<"1", "0", "0", "6", "4", "4">>)
      [] mode = "Executable"   -> Str(<<"1", "0", "0", "7", "5", "5">>)
      [] mode = "SymbolicLink" -> Str(<<"1", "2", "0", "0", "0", "0">>)
      [] mode = "Directory"    -> Str(<<"4", "0", "0", "0", "0">>)

\* TreeObject::new
TreeObject(hash, name, mode, git_object) ==
    [hash |-> hash, name |-> name, mode |-> mode,
     object_type |-> IF mode = "Directory" THEN "tree" ELSE "blob",
     git_object |-> git_object]

-----------------------------------------------------------------------------
(* git_objects.rs: GitObject *)

Blob(hash, size, content) ==
    [kind |-> "blob", hash |-> hash, size |-> size, content |-> content]

Tree(size, hash, objects) ==
    [kind |-> "tree", size |-> size, hash |-> hash, objects |-> objects]

None == [some |-> FALSE, v |-> <<>>]
Some(v) == [some |-> TRUE, v |-> v]

Commit(hash, message, tree, parent, an, ae, cn, ce) ==
    [kind |-> "commit", hash |-> hash, message |-> message, tree |-> tree,
     parent |-> parent, author_name |-> an, author_email |-> ae,
     committer_name |-> cn, committer_email |-> ce]

UserName == Str(<<"Y", "a", "s", "s", "e", "n", " ", "H", "i", "g", "a", "z", "i">>)

UserEmail == Str(<<"y", "a", "s", "s", "e", "n", "k", "a", "2", "8", "@",
                   "g", "m", "a", "i", "l", ".", "c", "o", "m">>)

new_commit(message, hash, tree, parent) ==
    Commit(hash, message, tree, parent, UserName, UserEmail, UserName, UserEmail)

get_hash(obj) == obj.hash

is_tree(obj) == obj.kind = "tree"

is_commit(obj) == obj.kind = "commit"

\* impl Display for GitObject / get_type
get_type(obj) ==
    CASE obj.kind = "blob"   -> Str(<<"b", "l", "o", "b">>)
      [] obj.kind = "tree"   -> Str(<<"t", "r", "e", "e">>)
      [] obj.kind = "commit" -> Str(<<"c", "o", "m", "m", "i", "t">>)

TagBlob   == Str(<<"b", "l", "o", "b">>)
TagTree   == Str(<<"t", "r", "e", "e">>)
TagCommit == Str(<<"c", "o", "m", "m", "i", "t">>)

\* format!("{object_type} {}\0", len)
Header(object_type, len) == object_type \o <<SP>> \o Dec(len) \o <<NUL>>

get_or_generate_hash(object_type, hash, content) ==
    IF hash.some THEN hash.v
    ELSE generate_object_id(Header(object_type, ByteLen(content)) \o content)

\* how many tokens of content start within its first n bytes
TokensIn(content, n) ==
    Cardinality({i \in 1..Len(content) : i <= n /\ Offset(content, i) < n})

\* the tokens that cover the first n bytes of content
TakeBytes(content, n) == SubSeq(content, 1, TokensIn(content, n))

\* &content[n..]: content from byte offset n on (n <= content.len())
DropBytes(content, n) == SubSeq(content, TokensIn(content, n) + 1, Len(content))

\* the byte offset just after the first NUL at or after byte offset from, or
\* content.len() when there is none (the while loop of parse_content_header)
ScanNul(content, from) ==
    LET nuls == {i \in 1..Len(content) : content[i] = NUL /\ Offset(content, i) >= from}
    IN  IF nuls = {} THEN ByteLen(content)
        ELSE Offset(content, CHOOSE i \in nuls : \A j \in nuls : i <= j) + 1

\* parse_content_header as it would be with a type tag of 4 bytes always
ParseHeaderFixedTag(content) ==
    IF ByteLen(content) < 4 THEN Panic("range end index 4 out of range")
    ELSE IF 5 > ByteLen(content) THEN Panic("range start index out of range")
    ELSE Ok(<<TakeBytes(content, 4), DropBytes(content, 5)>>)

\* Sliced(object_type, content_index) is the return, Typed(type_len) what
\* follows the choice of the tag's length
parse_content_header(content) ==
    LET Sliced(object_type, content_index) ==
            IF content_index > ByteLen(content)
            THEN Panic("range start index out of range")
            ELSE Ok(<<object_type, DropBytes(content, content_index)>>)
        Typed(type_len) ==
            IF ByteLen(content) < type_len THEN Panic("range end index 6 out of range")
            ELSE IF ~IsUtf8(TakeBytes(content, type_len)) THEN Err("FromUtf8Error")
            ELSE Sliced(TakeBytes(content, type_len),
                        IF type_len + 1 < ByteLen(content)
                        THEN ScanNul(content, type_len + 1)
                        ELSE type_len + 1)
    IN  IF ByteLen(content) < 4 THEN Panic("range end index 4 out of range")
        ELSE Typed(IF TakeBytes(content, 4) = Str(<<"c", "o", "m", "m">>) THEN 6 ELSE 4)

\* from_file_content and from_file_content_and_type call each other.  path is
\* the set of identifiers whose decoding is in progress on the call stack:
\* decoding is a function of the files alone, so meeting one of them again is
\* a recursion that never ends.
RECURSIVE from_file_content(_, _, _, _)
RECURSIVE from_file_content_and_type(_, _, _, _, _)
RECURSIVE DecodeTreeEntries(_, _, _, _)
RECURSIVE DecodeCommitLines(_, _, _, _, _)

\* one pass of the tree arm's parsing: the mode up to ' ', the name up to NUL,
\* then iter.take(20), the tokens that cover the next 20 bytes; rest is what
\* is left of the iterator
TreeEntryHash(mode, filename, iter) ==
    [mode |-> ModeFromStr(Lossy(mode)), name |-> Lossy(filename),
     hash |-> to_hex_string(TakeBytes(iter, RawWidth)),
     rest |-> DropBytes(iter, RawWidth)]

TreeEntryName(mode, iter) == TreeEntryHash(mode, UpTo(iter, NUL), After(iter, NUL))

TreeEntryMode(iter) ==
    TreeEntryName(<<Head(iter)>> \o UpTo(Tail(iter), SP), After(Tail(iter), SP))

\* the while loop of the "tree" arm: iter is what is left of the payload
DecodeTreeEntries(files, iter, objects, path) ==
    LET Pushed(entry, git_object) ==
            IF git_object.st # "ok" THEN git_object
            ELSE DecodeTreeEntries(files, entry.rest,
                     Append(objects, TreeObject(entry.hash, entry.name, entry.mode,
                                                git_object.v)),
                     path)
        Read(entry, git_object_content) ==
            IF git_object_content.st # "ok" THEN git_object_content
            ELSE Pushed(entry, from_file_content(files, entry.hash,
                                                 git_object_content.v, path))
        Parsed(entry) == Read(entry, read_object(files, entry.hash))
    IN  IF iter = <<>> THEN Ok(objects) ELSE Parsed(TreeEntryMode(iter))

\* the loop of the "commit" arm over content_split, from line_index on
\* (line_index counts from 0 as in the code); acc collects parents and identity
DecodeCommitLines(files, content_split, line_index, acc, path) ==
    LET Continue(next) ==
            DecodeCommitLines(files, content_split, line_index + 1, next, path)
        Email(word) == Remove(Remove(word, Ch("<")), Ch(">"))
        ParentDecoded(parent_object) ==
            IF parent_object.st # "ok" THEN parent_object
            ELSE Continue([acc EXCEPT !.parents = Append(@, parent_object.v)])
        ParentRead(parent_hash, parent_object_content) ==
            IF parent_object_content.st # "ok" THEN parent_object_content
            ELSE ParentDecoded(from_file_content(files, parent_hash,
                                                 parent_object_content.v, path))
        Line(current_line, words) ==
            IF StartsWith(current_line, Str(<<"p", "a", "r", "e", "n", "t">>)) THEN
                IF Len(words) < 2 THEN Panic("index out of bounds")
                ELSE ParentRead(words[2], read_object(files, words[2]))
            ELSE IF StartsWith(current_line, Str(<<"a", "u", "t", "h", "o", "r">>)) THEN
                IF Len(words) < 3 THEN Panic("index out of bounds")
                ELSE Continue([acc EXCEPT !.author_name = words[2],
                                          !.author_email = Email(words[3])])
            ELSE IF StartsWith(current_line,
                               Str(<<"c", "o", "m", "m", "i", "t", "t", "e", "r">>)) THEN
                IF Len(words) < 3 THEN Panic("index out of bounds")
                ELSE Continue([acc EXCEPT !.committer_name = words[2],
                                          !.committer_email = Email(words[3])])
            ELSE IF line_index + 1 >= Len(content_split) THEN Panic("index out of bounds")
            ELSE Ok([acc EXCEPT !.message = content_split[line_index + 2]])
    IN  IF line_index >= Len(content_split) THEN Panic("index out of bounds")
        ELSE Line(content_split[line_index + 1], Split(content_split[line_index + 1], SP))

\* the "tree" arm once the entries are decoded
DecodeTree(hash, size, objects) ==
    IF objects.st # "ok" THEN objects ELSE Ok(Tree(size, hash, objects.v))

\* the "commit" arm from content_str.split("\n") on
DecodeCommit(files, hash, content_split, path) ==
    LET Looped(tree_object, lines) ==
            IF lines.st # "ok" THEN lines
            ELSE Ok(Commit(hash, lines.v.message, tree_object,
                           IF lines.v.parents = <<>> THEN None ELSE Some(lines.v.parents),
                           lines.v.author_name, lines.v.author_email,
                           lines.v.committer_name, lines.v.committer_email))
        TreeDecoded(tree_object) ==
            IF tree_object.st # "ok" THEN tree_object
            ELSE Looped(tree_object.v,
                        DecodeCommitLines(files, content_split, 1,
                            [message |-> <<>>, parents |-> <<>>,
                             author_name |-> <<>>, author_email |-> <<>>,
                             committer_name |-> <<>>, committer_email |-> <<>>],
                            path))
        TreeRead(tree_hash, tree_object_content) ==
            IF tree_object_content.st # "ok" THEN tree_object_content
            ELSE TreeDecoded(from_file_content(files, tree_hash,
                                               tree_object_content.v, path))
        TreeLine(tree_line) ==
            IF Len(tree_line) < 2 THEN Panic("index out of bounds")
            ELSE TreeRead(tree_line[2], read_object(files, tree_line[2]))
    IN  TreeLine(Split(content_split[1], SP))

from_file_content_and_type(files, obj_type, content, hash, path) ==
    IF obj_type = TagBlob THEN
        IF ~IsUtf8(content) THEN Err("FromUtf8Error")
        ELSE Ok(Blob(get_or_generate_hash(obj_type, hash, content),
                     ByteLen(content), content))
    ELSE IF obj_type = TagTree THEN
        DecodeTree(get_or_generate_hash(obj_type, hash, content), ByteLen(content),
                   DecodeTreeEntries(files, content, <<>>, path))
    ELSE IF obj_type = TagCommit THEN
        IF ~IsUtf8(content) THEN Err("FromUtf8Error")
        ELSE DecodeCommit(files, get_or_generate_hash(obj_type, hash, content),
                          Split(content, LF), path)
    ELSE Err("Unsupported Type")

from_file_content(files, hash, compressed_content, path) ==
    LET Parsed(header) ==
            IF header.st # "ok" THEN header
            ELSE from_file_content_and_type(files, header.v[1], header.v[2],
                                            Some(hash), path \cup {hash})
        Inflated(content) ==
            IF content.st # "ok" THEN content
            ELSE Parsed(parse_content_header(content.v))
    IN  IF hash \in path THEN Overflow
        ELSE Inflated(decompress(compressed_content))

-----------------------------------------------------------------------------
(* The working directory.  A directory is the sequence of its entries in the *)
(* order the filesystem lists them; an entry is                              *)
(*   [name, kind ("file" | "symlink" | "dir"), content, entries]             *)
(* where content is what reading the path yields (a symlink is followed) and *)
(* entries is the listing of a directory.                                    *)

File(name, content) ==
    [name |-> name, kind |-> "file", content |-> content, entries |-> <<>>]

Symlink(name, content) ==
    [name |-> name, kind |-> "symlink", content |-> content, entries |-> <<>>]

Dir(name, entries) ==
    [name |-> name, kind |-> "dir", content |-> <<>>, entries |-> entries]

DotGit == Str(<<".", "g", "i", "t">>)

DotGitignore == Str(<<".", "g", "i", "t", "i", "g", "n", "o", "r", "e">>)

\* list_directory: the entries in the filesystem's order
list_directory(dir) == dir

\* get_hidden_files reads .gitignore of the current directory cwd; a read
\* error (no such file, or a directory) carries the file's name and gives an
\* empty list
get_hidden_files(cwd) ==
    LET found == SelectSeq(cwd, LAMBDA en : en.name = DotGitignore /\ en.kind # "dir")
    IN  IF found = <<>> THEN Ok(<<>>)
        ELSE IF ~IsUtf8(found[1].content) THEN Err("FromUtf8Error")
        ELSE Ok(Append(Split(found[1].content, LF), DotGit))

Contains(list, x) == \E i \in 1..Len(list) : list[i] = x

\* the closure of filter_hidden_files: whether entry is kept
KeepEntry(hidden_files, entry) ==
    LET file_name == IF IsUtf8(entry.name) THEN entry.name ELSE DotGit
    IN  IF hidden_files = <<>> THEN file_name # DotGit
        ELSE file_name # DotGit \/ ~Contains(hidden_files, file_name)

filter_hidden_files(cwd, files) ==
    LET hidden_files == get_hidden_files(cwd)
    IN  IF hidden_files.st # "ok" THEN hidden_files
        ELSE Ok(SelectSeq(files, LAMBDA en : KeepEntry(hidden_files.v, en)))

\* from_directory without its sort: the entries stay in listing order
SortByNameSkipped(files) == files

\* files.sort_by_key(name): a stable sort by the byte-wise order of the names
RECURSIVE InsertByName(_, _)
InsertByName(sorted, en) ==
    IF sorted = <<>> THEN <<en>>
    ELSE IF BytesLess(en.name, Head(sorted).name) THEN <<en>> \o sorted
    ELSE <<Head(sorted)>> \o InsertByName(Tail(sorted), en)

RECURSIVE SortByName(_)
SortByName(files) ==
    IF files = <<>> THEN <<>>
    ELSE InsertByName(SortByName(SubSeq(files, 1, Len(files) - 1)), files[Len(files)])

\* format!("{} {}\0", object.mode, object.name) followed by from_hex(hash)
EntryBytes(object, raw) ==
    ModeDisplay(object.mode) \o <<SP>> \o object.name \o <<NUL>> \o raw

RECURSIVE from_directory(_, _, _)
RECURSIVE BuildEntries(_, _, _, _, _)

\* the for loop of from_directory over the sorted entries
BuildEntries(store_files, cwd, files, objects, objects_vec) ==
    LET Pushed(object, raw) ==
            IF raw.st # "ok" THEN raw
            ELSE BuildEntries(store_files, cwd, Tail(files), Append(objects, object),
                              objects_vec \o EntryBytes(object, raw.v))
        Object(object) == Pushed(object, from_hex(object.hash))
        Built(entry, git_object) ==
            IF git_object.st # "ok" THEN git_object
            ELSE Object(TreeObject(get_hash(git_object.v), entry.name,
                                   ModeFromFileType(entry.kind), git_object.v))
        Entry(entry) ==
            Built(entry, IF entry.kind = "dir"
                         THEN from_directory(store_files, cwd, entry.entries)
                         ELSE from_file_content_and_type(store_files, TagBlob,
                                                         entry.content, None, {}))
    IN  IF files = <<>> THEN Ok(<<objects, objects_vec>>) ELSE Entry(Head(files))

\* from_directory(dir_path): dir is the listing of dir_path, cwd the listing of
\* the current directory (where .gitignore is read)
from_directory(store_files, cwd, dir) ==
    LET Sealed(objects, objects_buffer, tree_size) ==
            Ok(Tree(tree_size,
                    generate_object_id(Header(TagTree, tree_size) \o objects_buffer),
                    objects))
        Looped(built) ==
            IF built.st # "ok" THEN built
            ELSE Sealed(built.v[1], built.v[2], ByteLen(built.v[2]))
        Filtered(files) ==
            IF files.st # "ok" THEN files
            ELSE Looped(BuildEntries(store_files, cwd, SortByName(files.v), <<>>, <<>>))
    IN  Filtered(filter_hidden_files(cwd, list_directory(dir)))

-----------------------------------------------------------------------------
(* Persisting.  A filesystem call (create_dir, or the write of a file) may  *)
(* fail: io = [fail, after] says whether one does, and after how many       *)
(* successful calls.  A write returns [st, e, files, io, log]: the files as *)
(* they are left, and log, the identifiers written, in order.               *)

NoFault == [fail |-> FALSE, after |-> 0]

Fails(io) == io.fail /\ io.after = 0

Tick(io) == IF io.fail THEN [io EXCEPT !.after = @ - 1] ELSE io

\* trace events: an object file written; from_directory returning a tree
WriteEv(hash) == [ev |-> "write", id |-> hash]

BuiltEv(hash) == [ev |-> "built", id |-> hash]

Written(files, io, log) == [st |-> "ok", e |-> "", files |-> files, io |-> io, log |-> log]

Failed(r, files, io, log) == [st |-> r.st, e |-> r.e, files |-> files, io |-> io, log |-> log]

\* create_object_directory, then compress and utils::write_to_file of
\* final_content under hash
PutObject(files, io, log, hash, final_content) ==
    LET Created(path) ==
            IF path.st # "ok" THEN Failed(path, files, io, log)
            ELSE IF Fails(io) THEN Failed(Err("IOError"), files, io, log)
            ELSE IF Fails(Tick(io)) THEN Failed(Err("IOError"), files, Tick(io), log)
            ELSE Written(write_to_file(files, path.v, compress(final_content)),
                         Tick(Tick(io)), Append(log, WriteEv(hash)))
    IN  Created(create_object_directory(hash))

\* the commit payload the Commit arm of write_to_file assembles
CommitPayload(obj) ==
    Str(<<"t", "r", "e", "e", " ">>) \o get_hash(obj.tree) \o <<LF>>
    \o (IF obj.parent.some
        THEN Concat([i \in 1..Len(obj.parent.v) |->
                 Str(<<"p", "a", "r", "e", "n", "t", " ">>)
                 \o get_hash(obj.parent.v[i]) \o <<LF>>])
        ELSE <<>>)
    \o Str(<<"a", "u", "t", "h", "o", "r", " ">>) \o obj.author_name
    \o Str(<<" ", "<">>) \o obj.author_email \o Str(<<">">>)
    \o <<LF>>
    \o Str(<<"c", "o", "m", "m", "i", "t", "t", "e", "r", " ">>) \o obj.committer_name
    \o Str(<<" ", "<">>) \o obj.committer_email \o Str(<<">">>)
    \o <<LF, LF>>
    \o obj.message
    \o <<LF>>

\* the loop of the Tree arm without the child's write_to_file: the entries are
\* encoded, no child is written
RECURSIVE WriteChildrenSkipped(_, _, _, _, _)
WriteChildrenSkipped(files, io, log, objects, objects_vec) ==
    LET Encoded(object, raw) ==
            IF raw.st # "ok" THEN Failed(raw, files, io, log)
            ELSE WriteChildrenSkipped(files, io, log, Tail(objects),
                                      objects_vec \o EntryBytes(object, raw.v))
    IN  IF objects = <<>> THEN [st |-> "ok", e |-> "", files |-> files, io |-> io,
                                log |-> log, buf |-> objects_vec]
        ELSE Encoded(Head(objects), from_hex(Head(objects).hash))

RECURSIVE GitObject_write_to_file(_, _, _, _)
RECURSIVE WriteChildren(_, _, _, _, _)

\* the for loop of the Tree arm: every child is written, then its entry encoded
WriteChildren(files, io, log, objects, objects_vec) ==
    LET Encoded(object, child, raw) ==
            IF raw.st # "ok" THEN Failed(raw, child.files, child.io, child.log)
            ELSE WriteChildren(child.files, child.io, child.log, Tail(objects),
                               objects_vec \o EntryBytes(object, raw.v))
        Child(object, child) ==
            IF child.st # "ok" THEN child
            ELSE Encoded(object, child, from_hex(object.hash))
        Object(object) ==
            Child(object, GitObject_write_to_file(files, io, log, object.git_object))
    IN  IF objects = <<>> THEN [st |-> "ok", e |-> "", files |-> files, io |-> io,
                                log |-> log, buf |-> objects_vec]
        ELSE Object(Head(objects))

\* the Commit arm once the payload is assembled
PutCommit(files, io, log, hash, uncomposed_content) ==
    PutObject(files, io, log, hash,
              Header(TagCommit, ByteLen(uncomposed_content)) \o uncomposed_content)

\* write_to_file as it would be if the Tree arm went on after a child failed:
\* the tree's file is written all the same
WriteToFileDespiteChild(files, io, log, obj) ==
    LET Looped(path, kids) ==
            IF kids.st # "ok"
            THEN Failed(kids, write_to_file(kids.files, path.v,
                                            compress(Header(TagTree, obj.size))),
                        kids.io, Append(kids.log, WriteEv(obj.hash)))
            ELSE IF Fails(kids.io)
                 THEN Failed(Err("IOError"), kids.files, kids.io, kids.log)
            ELSE Written(write_to_file(kids.files, path.v, compress(kids.buf)),
                         Tick(kids.io), Append(kids.log, WriteEv(obj.hash)))
        Created(path) ==
            IF path.st # "ok" THEN Failed(path, files, io, log)
            ELSE IF Fails(io) THEN Failed(Err("IOError"), files, io, log)
            ELSE Looped(path, WriteChildren(files, Tick(io), log, obj.objects,
                                            Header(TagTree, obj.size)))
    IN  IF obj.kind = "blob" THEN
            PutObject(files, io, log, obj.hash, Header(TagBlob, obj.size) \o obj.content)
        ELSE IF obj.kind = "tree" THEN Created(create_object_directory(obj.hash))
        ELSE PutCommit(files, io, log, obj.hash, CommitPayload(obj))

GitObject_write_to_file(files, io, log, obj) ==
    LET Looped(path, kids) ==
            IF kids.st # "ok" THEN kids
            ELSE IF Fails(kids.io)
                 THEN Failed(Err("IOError"), kids.files, kids.io, kids.log)
            ELSE Written(write_to_file(kids.files, path.v, compress(kids.buf)),
                         Tick(kids.io), Append(kids.log, WriteEv(obj.hash)))
        Created(path) ==
            IF path.st # "ok" THEN Failed(path, files, io, log)
            ELSE IF Fails(io) THEN Failed(Err("IOError"), files, io, log)
            ELSE Looped(path, WriteChildren(files, Tick(io), log, obj.objects,
                                            Header(TagTree, obj.size)))
    IN  IF obj.kind = "blob" THEN
            PutObject(files, io, log, obj.hash, Header(TagBlob, obj.size) \o obj.content)
        ELSE IF obj.kind = "tree" THEN Created(create_object_directory(obj.hash))
        ELSE PutCommit(files, io, log, obj.hash, CommitPayload(obj))

-----------------------------------------------------------------------------
(* Inputs of the commands *)

NameA == Str(<<"a">>)
NameB == Str(<<"b">>)
NameD == Str(<<"d">>)

TextX == Str(<<"x">>)

\* .git itself: always in the working directory, since the store lives there
GitDir == Dir(DotGit, <<File(Str(<<"h">>), TextX)>>)

\* what a working directory may hold besides .git
EntryPool ==
    { File(NameA, TextX),
      Dir(NameD, <<File(NameA, TextX)>>) }

RECURSIVE Listings(_, _)
Listings(pool, n) ==
    IF n = 0 THEN {<<>>}
    ELSE LET shorter == Listings(pool, n - 1)
         IN  shorter \cup
             { Append(l, en) : l \in {m \in shorter : Len(m) = n - 1},
                               en \in {x \in pool : TRUE} }

DistinctNames(l) == \A i, j \in 1..Len(l) : l[i].name = l[j].name => i = j

RootDirs ==
    { <<GitDir>> \o l : l \in {m \in Listings(EntryPool, MaxEntries) : DistinctNames(m)} }

Faults == {NoFault} \cup {[fail |-> TRUE, after |-> k] : k \in 0..MaxFaultAfter}

\* an identifier no object is stored under
MissingId == generate_object_id(Str(<<"?">>))

Messages == {Str(<<"m">>)}

\* a commit payload as a user may write it to a file: one-word identity
HandCommit(tree_hash) ==
    Str(<<"t", "r", "e", "e", " ">>) \o tree_hash \o <<LF>>
    \o Str(<<"a", "u", "t", "h", "o", "r", " ", "y", " ", "<", "e", ">">>) \o <<LF>>
    \o Str(<<"c", "o", "m", "m", "i", "t", "t", "e", "r", " ", "y", " ", "<", "e", ">">>)
    \o <<LF, LF>> \o Str(<<"m">>) \o <<LF>>

\* the (type, file content) pairs hash-object is run on
HashInputs(files) ==
    {<<TagBlob, TextX>>, <<TagBlob, <<XFF>>>>, <<TagTree, <<>>>>,
     <<Str(<<"t", "a", "g">>), TextX>>}
    \cup {<<TagCommit, HandCommit(h)>> : h \in DOMAIN files}

-----------------------------------------------------------------------------
(* The commands (git.rs, Git::execute) *)

NoArgs ==
    [write |-> FALSE, object_type |-> <<>>, content |-> <<>>, dir |-> <<>>,
     tree |-> <<>>, parent |-> None, message |-> <<>>, hash |-> <<>>,
     io |-> NoFault]

\* the record of a command: its arguments, how it ended (st, e), what it
\* printed (out), the object it built (obj, at most one) and its trace (log)
Ran(cmd, args, r, out, obj, log) ==
    [cmd |-> cmd, args |-> args, st |-> r.st, e |-> r.e, out |-> out,
     obj |-> obj, log |-> log]

Init ==
    /\ store = <<>>
    /\ last = Ran("init", NoArgs, Ok(<<>>), <<>>, <<>>, <<>>)
    /\ nops = 0

\* the end of a command: the store as it is left and the record of the command
Finish(cmd, args, r, out, obj, log, files) ==
    /\ nops' = nops + 1
    /\ store' = files
    /\ last' = Ran(cmd, args, r, out, obj, log)

\* the end of a command that wrote object: w is what write_to_file returned
Wrote(cmd, args, object, w) ==
    Finish(cmd, args, w, IF w.st = "ok" THEN get_hash(object) ELSE <<>>,
           <<object>>, w.log, w.files)

\* Commands::HashObject
HashObject(write, object_type, content, io) ==
    LET args == [NoArgs EXCEPT !.write = write, !.object_type = object_type,
                               !.content = content, !.io = io]
        Built(object) ==
            IF object.st # "ok"
            THEN Finish("hash-object", args, object, <<>>, <<>>, <<>>, store)
            ELSE IF ~write
            THEN Finish("hash-object", args, object, get_hash(object.v),
                        <<object.v>>, <<>>, store)
            ELSE Wrote("hash-object", args, object.v,
                       GitObject_write_to_file(store, io, <<>>, object.v))
    IN  Built(from_file_content_and_type(store, object_type, content, None, {}))

\* Commands::WriteTree; dir is the listing of the current directory
WriteTree(dir, io) ==
    LET args == [NoArgs EXCEPT !.dir = dir, !.io = io]
        Built(object) ==
            IF object.st # "ok"
            THEN Finish("write-tree", args, object, <<>>, <<>>, <<>>, store)
            ELSE Wrote("write-tree", args, object.v,
                       GitObject_write_to_file(store, io,
                                               <<BuiltEv(get_hash(object.v))>>, object.v))
    IN  Built(from_directory(store, dir, dir))

\* Commands::CommitTree
CommitTree(message, parent, tree, io) ==
    LET args == [NoArgs EXCEPT !.message = message, !.parent = parent,
                               !.tree = tree, !.io = io]
        Bail(r) == Finish("commit-tree", args, r, <<>>, <<>>, <<>>, store)
        Write(commit) ==
            Wrote("commit-tree", args, commit,
                  GitObject_write_to_file(store, io, <<>>, commit))
        Parents(tree_object, parents) ==
            IF parents.st # "ok" THEN Bail(parents)
            ELSE Write(new_commit(message, tree, tree_object, parents.v))
        ParentDecoded(parent_object) ==
            IF parent_object.st # "ok" THEN parent_object
            ELSE IF ~is_commit(parent_object.v) THEN Err("parent is not a commit object")
            ELSE Ok(Some(<<parent_object.v>>))
        ParentRead(parent_content) ==
            IF parent_content.st # "ok" THEN parent_content
            ELSE ParentDecoded(from_file_content(store, parent.v, parent_content.v, {}))
        TreeDecoded(tree_object) ==
            IF tree_object.st # "ok" THEN Bail(tree_object)
            ELSE IF ~is_tree(tree_object.v) THEN Bail(Err("hash must be a tree object"))
            ELSE Parents(tree_object.v,
                         IF parent.some THEN ParentRead(read_object(store, parent.v))
                         ELSE Ok(None))
        TreeRead(tree_content) ==
            IF tree_content.st # "ok" THEN Bail(tree_content)
            ELSE TreeDecoded(from_file_content(store, tree, tree_content.v, {}))
    IN  TreeRead(read_object(store, tree))

\* Commands::LsTree: decode the object and print it
LsTree(hash) ==
    LET args == [NoArgs EXCEPT !.hash = hash]
        Decoded(object) ==
            Finish("ls-tree", args, object, <<>>,
                   IF object.st = "ok" THEN <<object.v>> ELSE <<>>, <<>>, store)
        Read(compressed_content) ==
            IF compressed_content.st # "ok"
            THEN Finish("ls-tree", args, compressed_content, <<>>, <<>>, <<>>, store)
            ELSE Decoded(from_file_content(store, hash, compressed_content.v, {}))
    IN  Read(read_object(store, hash))

\* The filesystem is taken to be reliable here (spec.md section 7); faults are
\* injected in TreeSpec.
Next ==
    \/ /\ nops < MaxOps
       /\ \E write \in BOOLEAN, inp \in HashInputs(store) :
              HashObject(write, inp[1], inp[2], NoFault)
    \/ /\ nops < MaxOps
       /\ \E dir \in RootDirs : WriteTree(dir, NoFault)
    \/ /\ nops < MaxOps
       /\ \E message \in Messages, tree \in DOMAIN store \cup {MissingId},
              parent \in {None} \cup {Some(h) : h \in DOMAIN store} :
              CommitTree(message, parent, tree, NoFault)
    \/ /\ nops < MaxOps
       /\ \E hash \in DOMAIN store \cup {MissingId} : LsTree(hash)

Spec == Init /\ [][Next]_vars

-----------------------------------------------------------------------------
(* TreeSpec: one write-tree on a fresh store, over every listing of a richer *)
(* working directory, with filesystem faults.                                *)

NameAB  == Str(<<"a", "b">>)
NameBad == <<XFF>>             \* a file name that is not valid UTF-8

TreePool ==
    { File(NameA, TextX),
      File(NameA, <<XFF>>),
      File(NameAB, <<>>),
      Symlink(NameB, TextX),
      Dir(NameB, <<File(NameAB, TextX), GitDir, File(NameA, <<>>)>>),
      File(DotGitignore, NameA),
      File(DotGitignore, NameAB \o <<LF>> \o NameB \o <<LF>>),
      File(DotGitignore, DotGitignore \o <<LF>> \o NameA),
      File(NameBad, TextX) }

TreeDirs ==
    { l \in Listings(TreePool \cup {GitDir}, MaxEntries + 1) :
        DistinctNames(l) /\ \E i \in 1..Len(l) : l[i] = GitDir }

TreeNext ==
    /\ last.cmd = "init"
    /\ \E dir \in TreeDirs, io \in Faults : WriteTree(dir, io)

TreeSpec == Init /\ [][TreeNext]_vars

-----------------------------------------------------------------------------
(* CommitSpec: write-tree of one directory, then hash-object -t commit on    *)
(* every payload of at most MaxLines lines that name the tree just written.  *)

LineTree(h)   == Str(<<"t", "r", "e", "e", " ">>) \o h
LineParent(h) == Str(<<"p", "a", "r", "e", "n", "t", " ">>) \o h
LineAuthor    == Str(<<"a", "u", "t", "h", "o", "r", " ", "y", " ", "<", "e", ">">>)
LineCommitter ==
    Str(<<"c", "o", "m", "m", "i", "t", "t", "e", "r", " ", "y", " ", "<", "e", ">">>)
LineBlank     == <<>>
LineMessage   == Str(<<"m">>)

LinePool(h) ==
    {LineTree(h), LineParent(h), LineAuthor, LineCommitter, LineBlank, LineMessage}

RECURSIVE LineSeqs(_, _)
LineSeqs(pool, n) ==
    IF n = 0 THEN {<<>>}
    ELSE LET shorter == LineSeqs(pool, n - 1)
         IN  shorter \cup
             { Append(l, x) : l \in {m \in shorter : Len(m) = n - 1}, x \in pool }

\* every line followed by a newline
Unlines(lines) == Concat([i \in 1..Len(lines) |-> lines[i] \o <<LF>>] \o <<>>)

CommitPayloads(h) == { Unlines(l) : l \in LineSeqs(LinePool(h), MaxLines) }

CommitNext ==
    \/ /\ last.cmd = "init"
       /\ WriteTree(<<GitDir, File(NameA, TextX)>>, NoFault)
    \/ /\ last.cmd = "write-tree"
       /\ \E content \in CommitPayloads(last.out) :
              HashObject(FALSE, TagCommit, content, NoFault)

CommitSpec == Init /\ [][CommitNext]_vars

-----------------------------------------------------------------------------
(* Properties *)

\* the decompressed bytes of the object file stored under id
StoredBytes(files, id) == decompress(files[id]).v

\* the type tag the object file stored under id starts with
StoredTag(files, id) == parse_content_header(StoredBytes(files, id)).v[1]

Decode(files, id) == from_file_content(files, id, files[id], {})

\* C1: every object file in the store is filed under the digest of its own
\* canonical encoding (header plus payload), whatever sequence of hash-object
\* -w, write-tree and commit-tree produced it.
C1_FiledUnderOwnDigest ==
    \A id \in DOMAIN store : id = generate_object_id(StoredBytes(store, id))

\* C2: stored objects are immutable: a step never changes or removes the bytes
\* stored under an identifier that already names an object file.
C2_StoredObjectsImmutable ==
    [][\A id \in DOMAIN store : id \in DOMAIN store' /\ store'[id] = store[id]]_vars

\* C3: the stored objects reference each other without a cycle, so decoding
\* any stored identifier with from_file_content terminates.
C3_DecodeTerminates ==
    \A id \in DOMAIN store : Decode(store, id).st # "overflow"

NamesNonTree(files, id) == id \in DOMAIN files /\ StoredTag(files, id) # TagTree

NamesTree(files, id) == id \in DOMAIN files /\ StoredTag(files, id) = TagTree

NamesNonCommit(files, id) == id \in DOMAIN files /\ StoredTag(files, id) # TagCommit

\* C4: commit-tree whose tree argument names a stored object that is not a
\* Tree, or whose parent argument names a stored object that is not a Commit,
\* ends with a type-mismatch error (no panic, no crash) and writes nothing.
C4_TypeMismatchRejected ==
    [][(/\ last'.cmd = "commit-tree"
        /\ \/ NamesNonTree(store, last'.args.tree)
           \/ /\ NamesTree(store, last'.args.tree)
              /\ last'.args.parent.some
              /\ NamesNonCommit(store, last'.args.parent.v))
       => (/\ last'.st = "err"
           /\ last'.e \in {"hash must be a tree object", "parent is not a commit object"}
           /\ store' = store)]_vars

\* from_directory returned a tree in the last command
TreeBuilt == last.cmd = "write-tree" /\ last.obj # <<>>

BuiltTree == last.obj[1]

Range(f) == {f[i] : i \in DOMAIN f}

NamesOf(objects) == [i \in 1..Len(objects) |-> objects[i].name] \o <<>>

\* the names listed in the ignore file of dir: its lines, none when it is absent
IgnoreList(dir) ==
    LET found == SelectSeq(dir, LAMBDA en : en.name = DotGitignore /\ en.kind # "dir")
    IN  IF found = <<>> THEN {} ELSE Range(Split(found[1].content, LF))

\* C5: a Tree built from a directory drops every immediate entry named .git or
\* named in the ignore list and keeps every other entry; without an ignore
\* file only .git is dropped.
C5_ExclusionSetDropped ==
    TreeBuilt =>
        Range(NamesOf(BuiltTree.objects)) =
            { en.name : en \in { x \in Range(last.args.dir) :
                                   /\ x.name # DotGit
                                   /\ x.name \notin IgnoreList(last.args.dir) } }

Ascending(names) ==
    \A i \in 1..(Len(names) - 1) : BytesLess(names[i], names[i + 1])

RECURSIVE SortedThroughout(_)
SortedThroughout(obj) ==
    obj.kind = "tree" =>
        /\ Ascending(NamesOf(obj.objects))
        /\ \A i \in 1..Len(obj.objects) : SortedThroughout(obj.objects[i].git_object)

\* the payload of the tree stored under id, and the entry names read off it
StoredPayload(files, id) == parse_content_header(StoredBytes(files, id)).v[2]

PayloadNames(files, id) ==
    NamesOf(DecodeTreeEntries(files, StoredPayload(files, id), <<>>, {}).v)

\* C6: the entries of the Tree from_directory returns are in byte-wise
\* ascending order of name, whatever order the filesystem lists them in, and
\* the encoded tree payload keeps that order.
C6_EntriesSortedByName ==
    TreeBuilt =>
        /\ SortedThroughout(BuiltTree)
        /\ last.st = "ok" =>
              PayloadNames(store, BuiltTree.hash) = NamesOf(BuiltTree.objects)

\* the entries the filter keeps, in listing order
KeptListing == SelectSeq(last.args.dir, LAMBDA en : en.name # DotGit /\ IsUtf8(en.name))

C6_Witness ==
    /\ TreeBuilt
    /\ last.st = "ok"
    /\ Len(BuiltTree.objects) = 3
    /\ ~Ascending(NamesOf(KeptListing))
    /\ Ascending(NamesOf(BuiltTree.objects))

EntriesOf(obj) ==
    [i \in 1..Len(obj.objects) |->
        <<obj.objects[i].mode, obj.objects[i].name, obj.objects[i].hash>>] \o <<>>

\* C7: a Tree produced by from_directory, persisted with write_to_file and
\* decoded by its identifier with from_file_content, comes back with the same
\* entries (mode, name, child identifier) in the same order.
C7_TreeRoundTrip ==
    (TreeBuilt /\ last.st = "ok") =>
        LET decoded == Decode(store, last.out)
        IN  /\ last.out = BuiltTree.hash
            /\ decoded.st = "ok"
            /\ decoded.v.kind = "tree"
            /\ EntriesOf(decoded.v) = EntriesOf(BuiltTree)

C7_Witness ==
    /\ TreeBuilt
    /\ last.st = "ok"
    /\ Decode(store, last.out).st = "ok"
    /\ \E i, j \in 1..Len(BuiltTree.objects) :
          /\ BuiltTree.objects[i].mode = "Directory"
          /\ Len(BuiltTree.objects[i].git_object.objects) = 2
          /\ BuiltTree.objects[j].mode = "Regular"
    /\ EntriesOf(Decode(store, last.out).v) = EntriesOf(BuiltTree)

\* C8: a Commit built by commit-tree from a message, a stored tree and one
\* stored parent commit, decoded by the identifier the command prints, has the
\* tree identifier, parent identifiers and message it was built with.
C8_CommitRoundTrip ==
    (last.cmd = "commit-tree" /\ last.st = "ok" /\ last.args.parent.some) =>
        LET decoded == Decode(store, last.out)
        IN  /\ decoded.st = "ok"
            /\ decoded.v.kind = "commit"
            /\ get_hash(decoded.v.tree) = last.args.tree
            /\ decoded.v.parent.some
            /\ [i \in 1..Len(decoded.v.parent.v) |-> get_hash(decoded.v.parent.v[i])]
                   = <<last.args.parent.v>>
            /\ decoded.v.message = last.args.message

\* the grammar of a commit payload: tree, parent*, author, committer, a blank
\* line, then the message
ParentLines(lines) ==
    LET IsParent(i) == StartsWith(lines[i], Str(<<"p", "a", "r", "e", "n", "t", " ">>))
    IN  Cardinality({i \in 2..Len(lines) : \A j \in 2..i : IsParent(j)})

WellFormedCommit(content) ==
    LET lines == Split(content, LF)
        k     == ParentLines(lines)
    IN  /\ Len(lines) >= k + 5
        /\ StartsWith(lines[1], Str(<<"t", "r", "e", "e", " ">>))
        /\ StartsWith(lines[k + 2], Str(<<"a", "u", "t", "h", "o", "r", " ">>))
        /\ StartsWith(lines[k + 3],
                      Str(<<"c", "o", "m", "m", "i", "t", "t", "e", "r", " ">>))
        /\ lines[k + 4] = <<>>

\* C9: decoding a commit payload that lacks a required line (tree, author,
\* committer, the blank line) or has its lines out of order never returns a
\* Commit.
C9_MalformedCommitRejected ==
    (/\ last.cmd = "hash-object"
     /\ last.args.object_type = TagCommit
     /\ ~WellFormedCommit(last.args.content))
    => last.st # "ok"

RECURSIVE ChildIds(_)
ChildIds(obj) ==
    IF obj.kind # "tree" THEN {}
    ELSE UNION { {obj.objects[i].hash} \cup ChildIds(obj.objects[i].git_object) :
                 i \in 1..Len(obj.objects) }

RECURSIVE TreesOf(_)
TreesOf(obj) ==
    IF obj.kind # "tree" THEN {}
    ELSE {obj} \cup UNION { TreesOf(obj.objects[i].git_object) : i \in 1..Len(obj.objects) }

BuiltAt(log) == CHOOSE i \in 1..Len(log) : log[i].ev = "built"

\* C10: when from_directory returns a Tree, every child Blob and sub-Tree of
\* it is already in the object store, written before the Tree's identifier
\* was computed.
C10_ChildrenStoredWhenBuilt ==
    [][(last'.cmd = "write-tree" /\ last'.obj # <<>>) =>
          \A c \in ChildIds(last'.obj[1]) :
              \/ c \in DOMAIN store
              \/ \E i \in 1..(BuiltAt(last'.log) - 1) : last'.log[i] = WriteEv(c)]_vars

\* C10 as amended: from_directory writes nothing; when write-tree succeeds,
\* every child Blob and sub-Tree of the Tree is in the object store, and each
\* child's object file was written before the file of the tree that holds it.
C10_ChildrenStoredByWrite ==
    (TreeBuilt /\ last.st = "ok") =>
        /\ last.log[1] = BuiltEv(BuiltTree.hash)
        /\ \A c \in ChildIds(BuiltTree) : c \in DOMAIN store
        /\ \A t \in TreesOf(BuiltTree) :
              \A j \in 1..Len(last.log) :
                  last.log[j] = WriteEv(t.hash) =>
                      \A k \in 1..Len(t.objects) :
                          \E i \in 1..(j - 1) : last.log[i] = WriteEv(t.objects[k].hash)

C10_Witness ==
    /\ TreeBuilt
    /\ last.st = "ok"
    /\ \E i \in 1..Len(BuiltTree.objects) :
          /\ BuiltTree.objects[i].mode = "Directory"
          /\ BuiltTree.objects[i].git_object.objects # <<>>
    /\ ChildIds(BuiltTree) \subseteq DOMAIN store

\* C11: blob content is opaque bytes: hash-object building a blob from any
\* byte sequence succeeds whether or not the bytes are valid UTF-8, and with
\* -w the bytes persisted for the blob are exactly the header and the input.
C11_BlobBytesOpaque ==
    (last.cmd = "hash-object" /\ last.args.object_type = TagBlob) =>
        /\ last.st = "ok"
        /\ last.args.write =>
              StoredBytes(store, last.out) =
                  Header(TagBlob, ByteLen(last.args.content)) \o last.args.content

-----------------------------------------------------------------------------
(* DecodeSpec: an object file that this program did not write (another tool, *)
(* or a damaged file) is found in .git/objects, and ls-tree decodes it.  The *)
(* file inflates; its bytes are a cut of a canonical encoding.               *)

Prefixes(bs) == { SubSeq(bs, 1, k) : k \in 0..Len(bs) }

BlobX == Header(TagBlob, ByteLen(TextX)) \o TextX

\* a tree with the one entry "100644 a" naming the blob of "x"
TreeEntryA == EntryBytes([mode |-> "Regular", name |-> NameA], Sha1(BlobX))

TreeA == Header(TagTree, ByteLen(TreeEntryA)) \o TreeEntryA

CommitA ==
    Header(TagCommit, ByteLen(HandCommit(generate_object_id(TreeA))))
    \o HandCommit(generate_object_id(TreeA))

\* an encoding with a type tag that is none of blob, tree, commit
TagX == Str(<<"t", "a", "g", " ", "1">>) \o <<NUL>> \o TextX

ForeignPool == UNION { Prefixes(bs) : bs \in {BlobX, TreeA, CommitA, TagX} }

\* the file appears under the digest of its bytes
ForeignObject(bytes) ==
    Finish("foreign", [NoArgs EXCEPT !.content = bytes], Ok(<<>>),
           generate_object_id(bytes), <<>>, <<>>,
           write_to_file(store, generate_object_id(bytes), compress(bytes)))

DecodeNext ==
    \/ /\ last.cmd = "init"
       /\ \E bytes \in ForeignPool : ForeignObject(bytes)
    \/ /\ last.cmd = "foreign"
       /\ LsTree(last.out)

DecodeSpec == Init /\ [][DecodeNext]_vars

\* the entries of a tree payload each end with one 20-byte identifier
RECURSIVE WholeEntries(_)
WholeEntries(payload) ==
    \/ payload = <<>>
    \/ /\ IndexOf(payload, NUL) > 0
       /\ IndexOf(payload, NUL) < Len(payload)
       /\ IsRaw(payload[IndexOf(payload, NUL) + 1])
       /\ WholeEntries(SubSeq(payload, IndexOf(payload, NUL) + 2, Len(payload)))

\* the framing is malformed: shorter than a type tag, no null separator, an
\* unknown type tag, or a tree entry cut before its identifier
MalformedFraming(bytes) ==
    \/ ByteLen(bytes) < 4
    \/ IndexOf(bytes, NUL) = 0
    \/ UpTo(bytes, SP) \notin {TagBlob, TagTree, TagCommit}
    \/ UpTo(bytes, SP) = TagTree /\ ~WholeEntries(After(bytes, NUL))

\* C12: decoding bytes whose canonical framing is malformed returns a decode
\* error as a value: it never panics and never returns an object.
C12_MalformedFramingRejected ==
    (/\ last.cmd = "ls-tree"
     /\ last.args.hash \in DOMAIN store
     /\ MalformedFraming(StoredBytes(store, last.args.hash)))
    => last.st = "err"

-----------------------------------------------------------------------------
(* ParseSpec: parse_content_header applied to well-framed encodings          *)
(* "<type> <size>\0<payload>" of every payload of at most MaxPayload bytes.  *)

MaxPayload == 3

PayloadBytes == {Ch("x"), Ch("m"), SP, NUL}

Payloads == UNION { [1..n -> PayloadBytes] : n \in 0..MaxPayload }

\* what the function returned is kept as out (the payload) and obj (the tag)
ParseContentHeader(object_type, payload) ==
    LET content == Header(object_type, ByteLen(payload)) \o payload
        Parsed(r) ==
            Finish("parse", [NoArgs EXCEPT !.object_type = object_type,
                                           !.content = content],
                   r, IF r.st = "ok" THEN r.v[2] ELSE <<>>,
                   IF r.st = "ok" THEN <<r.v[1]>> ELSE <<>>, <<>>, store)
    IN  Parsed(parse_content_header(content))

ParseNext ==
    /\ last.cmd = "init"
    /\ \E object_type \in {TagBlob, TagTree, TagCommit}, payload \in Payloads :
           ParseContentHeader(object_type, payload)

ParseSpec == Init /\ [][ParseNext]_vars

\* C13: for a well-framed object of type blob, tree or commit,
\* parse_content_header returns exactly the type token and exactly the
\* payload, the bytes after the first NUL that follows the tag and the size,
\* whatever the length of the tag and whether or not the payload holds NULs.
C13_HeaderParsedExactly ==
    last.cmd = "parse" =>
        /\ last.st = "ok"
        /\ last.obj = <<last.args.object_type>>
        /\ last.args.content =
               Header(last.args.object_type, ByteLen(last.out)) \o last.out
        /\ last.out = After(last.args.content, NUL)

\* a commit whose payload holds a NUL has been parsed
C13_Witness ==
    /\ last.cmd = "parse"
    /\ last.st = "ok"
    /\ last.args.object_type = TagCommit
    /\ \E i \in 1..Len(last.out) : last.out[i] = NUL

\* every immediate entry of the directory is named .git or is in the ignore
\* list: nothing is left after exclusion
NothingLeft(dir) ==
    \A i \in 1..Len(dir) : dir[i].name = DotGit \/ dir[i].name \in IgnoreList(dir)

EmptyTreeBytes == Str(<<"t", "r", "e", "e", " ", "0">>) \o <<NUL>>

\* C14: from a directory with no entries left after exclusion, from_directory
\* returns a Tree with zero entries, size 0 and the identifier of the bytes
\* "tree 0\0", the same on every run.
C14_EmptyDirectoryTree ==
    (last.cmd = "write-tree" /\ NothingLeft(last.args.dir)) =>
        last.obj = <<Tree(0, generate_object_id(EmptyTreeBytes), <<>>)>>

\* C15: write_to_file of a Tree writes the object file of every child,
\* recursively, before the tree's own file; if persisting a child fails the
\* tree's own file is not written, and the children written before the
\* failure stay in the store.
C15_ChildrenBeforeTree ==
    TreeBuilt =>
        /\ \A t \in TreesOf(BuiltTree) :
              \A j \in 1..Len(last.log) :
                  last.log[j] = WriteEv(t.hash) =>
                      \A k \in 1..Len(t.objects) :
                          \E i \in 1..(j - 1) : last.log[i] = WriteEv(t.objects[k].hash)
        /\ \A t \in TreesOf(BuiltTree) :
              (\E k \in 1..Len(t.objects) : t.objects[k].hash \notin DOMAIN store)
                  => t.hash \notin DOMAIN store
        /\ last.st # "ok" => BuiltTree.hash \notin DOMAIN store
        /\ DOMAIN store =
               {last.log[i].id : i \in {j \in 1..Len(last.log) : last.log[j].ev = "write"}}

\* a child of a sub-tree failed after other children were written: they stay,
\* and neither the sub-tree nor the tree has a file
C15_Witness ==
    /\ TreeBuilt
    /\ last.st # "ok"
    /\ \E t \in TreesOf(BuiltTree) :
          /\ t # BuiltTree
          /\ \E k \in 1..Len(t.objects) : t.objects[k].hash \in DOMAIN store
          /\ \E k \in 1..Len(t.objects) : t.objects[k].hash \notin DOMAIN store
          /\ t.hash \notin DOMAIN store
    /\ BuiltTree.hash \notin DOMAIN store

\* the identity fields of a decoded commit are the ones new_commit sets
IdentityKept(commit) ==
    /\ commit.author_name = UserName
    /\ commit.author_email = UserEmail
    /\ commit.committer_name = UserName
    /\ commit.committer_email = UserEmail

\* C16: the author and committer identity survives a commit round trip: the
\* bytes write_to_file persists for a Commit built by new_commit, whenever
\* they decode (against the store the commit was built from), give back the
\* name and the email new_commit set for author and committer.
C16_IdentityRoundTrip ==
    [][(last'.cmd = "commit-tree" /\ last'.st = "ok") =>
          LET decoded == from_file_content_and_type(
                             store, TagCommit, CommitPayload(last'.obj[1]), None, {})
          IN  decoded.st = "ok" => IdentityKept(decoded.v)]_vars

=============================================================================
